---- MODULE Spec2Model ----
(***************************************************************************)
(* Model of portable_python/setup_portable_env.py: the sequential workflow *)
(* setup_portable_python() and its helpers get_python_download_url(),      *)
(* download_file(), extract_zip() and create_activation_scripts().         *)
(*                                                                         *)
(* File contents are sequences of tokens.  A token is a tuple of strings:  *)
(* a carriage return, a line feed, a chunk of text without line breaks, or *)
(* a path given by its components (rendered with "\" between them).        *)
(* Text-mode reads and writes translate line breaks as Python does on      *)
(* Windows, the only platform on which the workflow gets past line 61.     *)
(***************************************************************************)
EXTENDS Naturals, Sequences, FiniteSets

VARIABLES
    system,      \* platform.system(), line 18
    machine,     \* platform.machine(), line 19
    root,        \* project_root, lines 49 and 115
    archive,     \* the entries of the zip served at the download URL
    fs,          \* the directories and files the workflow touches
    fs0,         \* fs on entry to the current run
    pc,          \* position in setup_portable_python, lines 47-111
    python_url,  \* line 60
    result,      \* the value returned, lines 70, 104, 111 ("none" before)
    calls,       \* the outside effects of the current run, in order
    exits,       \* the exit statuses subprocess.run got in the current run
    runs         \* runs started so far

vars == <<system, machine, root, archive, fs, fs0, pc, python_url, result,
          calls, exits, runs>>

\* ------------------------------------------------------------- bounds
MaxLen == 2      \* longest file text drawn for the archive's path manifest
MaxRuns == 2     \* consecutive runs of the workflow

\* ------------------------------------------------------------- tokens
CR == <<"\r">>
LF == <<"\n">>
Chunk == <<"x">>
Alphabet == {Chunk, CR, LF}

RECURSIVE TextsOfLen(_)
TextsOfLen(n) ==
    IF n = 0 THEN {<<>>}
    ELSE {<<a>> \o t : a \in Alphabet, t \in TextsOfLen(n - 1)}

Texts == UNION {TextsOfLen(n) : n \in 0..MaxLen}

NoFile == [exists |-> FALSE, data |-> <<>>]
File(d) == [exists |-> TRUE, data |-> d]

\* open(path, 'r').read(): universal newlines, "\r\n" and "\r" become "\n"
RECURSIVE ReadText(_)
ReadText(bytes) ==
    IF bytes = <<>> THEN <<>>
    ELSE IF Head(bytes) = CR
         THEN IF Len(bytes) >= 2 /\ bytes[2] = LF
              THEN <<LF>> \o ReadText(SubSeq(bytes, 3, Len(bytes)))
              ELSE <<LF>> \o ReadText(Tail(bytes))
         ELSE <<Head(bytes)>> \o ReadText(Tail(bytes))

\* open(path, 'w').write(s): "\n" becomes os.linesep, "\r\n" on Windows
RECURSIVE WriteText(_)
WriteText(s) ==
    IF s = <<>> THEN <<>>
    ELSE IF Head(s) = LF
         THEN <<CR, LF>> \o WriteText(Tail(s))
         ELSE <<Head(s)>> \o WriteText(Tail(s))

\* ------------------------------------------------------------- paths
Roots == {<<"C:", "proj">>, <<"D:", "work", "app">>}
PortableDir(r) == r \o <<"portable_python">>
PythonDir(r) == PortableDir(r) \o <<"python">>

\* ------------------------------------------------- platform and URLs
Systems == {"Windows", "Linux", "Darwin", "Java"}
Machines == {"AMD64", "x86_64", "x86"}

\* str.lower() on the names drawn above
Lower(s) ==
    CASE s = "Windows" -> "windows"
      [] s = "Linux" -> "linux"
      [] s = "Darwin" -> "darwin"
      [] s = "Java" -> "java"
      [] s = "AMD64" -> "amd64"
      [] OTHER -> s

None == [kind |-> "None", scheme |-> "", host |-> "", path |-> ""]
Amd64Url == [kind |-> "str", scheme |-> "https", host |-> "www.python.org",
             path |-> "/ftp/python/3.10.11/python-3.10.11-embed-amd64.zip"]
Win32Url == [kind |-> "str", scheme |-> "https", host |-> "www.python.org",
             path |-> "/ftp/python/3.10.11/python-3.10.11-embed-win32.zip"]

get_python_download_url_raw(sys, mach) ==
    IF sys = "windows"
    THEN IF mach = "amd64" \/ mach = "x86_64" THEN Amd64Url ELSE Win32Url
    ELSE None

get_python_download_url(sys, mach) ==
    LET s == Lower(sys)
        m == Lower(mach)
    IN  IF s = "windows"
        THEN IF m = "amd64" \/ m = "x86_64" THEN Amd64Url ELSE Win32Url
        ELSE IF s = "linux" THEN None
        ELSE IF s = "darwin" THEN None
        ELSE None

\* ------------------------------------------------------------ state
Archives == [pth : {NoFile} \cup {File(t) : t \in Texts}, exe : BOOLEAN]
PriorPth == {NoFile, File(<<Chunk, LF>>)}
PriorScripts == {NoFile, File(<<>>), File(<<<<"old">>, LF>>)}
ExitCodes == {0, 1}

Init ==
    /\ system \in Systems
    /\ machine \in Machines
    /\ root \in Roots
    /\ archive \in Archives
    /\ \E p \in PriorPth, s \in PriorScripts, req \in BOOLEAN :
         fs = [portable_dir |-> TRUE, python_dir |-> p.exists,
               zip |-> NoFile, runtime |-> FALSE, pth |-> p, exe |-> FALSE,
               getpip |-> FALSE, req |-> req,
               activate |-> s, deactivate |-> s]
    /\ fs0 = fs
    /\ pc = "idle"
    /\ python_url = None
    /\ result = "none"
    /\ calls = <<>>
    /\ exits = <<>>
    /\ runs = 0

Start ==
    /\ pc \in {"idle", "done", "crashed"}
    /\ runs < MaxRuns
    /\ runs' = runs + 1
    /\ pc' = "mkdir"
    /\ fs0' = fs
    /\ python_url' = None
    /\ result' = "none"
    /\ calls' = <<>>
    /\ exits' = <<>>
    /\ UNCHANGED <<system, machine, root, archive, fs>>

\* lines 55-57: portable_dir.mkdir(exist_ok=True); python_dir.mkdir(exist_ok=True)
MakeDirs ==
    /\ pc = "mkdir"
    /\ fs' = [fs EXCEPT !.portable_dir = TRUE, !.python_dir = TRUE]
    /\ calls' = Append(calls, "mkdir")
    /\ pc' = "resolve"
    /\ UNCHANGED <<system, machine, root, archive, fs0, python_url, result,
                   exits, runs>>

\* line 60: python_url = get_python_download_url()
ResolveUrl ==
    /\ pc = "resolve"
    /\ python_url' = get_python_download_url(system, machine)
    /\ pc' = "branch"
    /\ UNCHANGED <<system, machine, root, archive, fs, fs0, result, calls,
                   exits, runs>>

Unsupported_fallthrough ==
    /\ pc = "branch"
    /\ python_url.kind = "None"
    /\ pc' = "patch"
    /\ UNCHANGED <<system, machine, root, archive, fs, fs0, python_url,
                   result, calls, exits, runs>>

\* lines 61, 67-70: no URL for this platform, return False
Unsupported ==
    /\ pc = "branch"
    /\ python_url.kind = "None"
    /\ result' = FALSE
    /\ pc' = "done"
    /\ UNCHANGED <<system, machine, root, archive, fs, fs0, python_url,
                   calls, exits, runs>>

\* lines 61-63, 34-38: download_file(python_url, python_zip); urlretrieve
\* either stores the archive or raises on a transport failure
Download ==
    /\ pc = "branch"
    /\ python_url.kind # "None"
    /\ calls' = Append(calls, "urlretrieve python.zip")
    /\ \/ /\ fs' = [fs EXCEPT !.zip = File(<<<<python_url.path>>>>)]
          /\ pc' = "extract"
       \/ /\ fs' = fs
          /\ pc' = "crashed"
    /\ UNCHANGED <<system, machine, root, archive, fs0, python_url, result,
                   exits, runs>>

Extract_keep_existing ==
    /\ pc = "extract"
    /\ fs' = [fs EXCEPT !.runtime = TRUE,
                        !.pth = IF archive.pth.exists /\ ~fs.pth.exists
                                THEN archive.pth ELSE fs.pth,
                        !.exe = fs.exe \/ archive.exe]
    /\ calls' = Append(calls, "extractall")
    /\ pc' = "unlink"
    /\ UNCHANGED <<system, machine, root, archive, fs0, python_url, result,
                   exits, runs>>

\* lines 64, 40-45: extract_zip(python_zip, python_dir); every entry of the
\* archive is written over whatever the destination holds
Extract ==
    /\ pc = "extract"
    /\ fs' = [fs EXCEPT !.runtime = TRUE,
                        !.pth = IF archive.pth.exists
                                THEN archive.pth ELSE fs.pth,
                        !.exe = fs.exe \/ archive.exe]
    /\ calls' = Append(calls, "extractall")
    /\ pc' = "unlink"
    /\ UNCHANGED <<system, machine, root, archive, fs0, python_url, result,
                   exits, runs>>

Unlink_skip ==
    /\ pc = "unlink"
    /\ pc' = "patch"
    /\ UNCHANGED <<system, machine, root, archive, fs, fs0, python_url,
                   result, calls, exits, runs>>

\* line 66: python_zip.unlink()
Unlink ==
    /\ pc = "unlink"
    /\ fs' = [fs EXCEPT !.zip = NoFile]
    /\ calls' = Append(calls, "unlink python.zip")
    /\ pc' = "patch"
    /\ UNCHANGED <<system, machine, root, archive, fs0, python_url, result,
                   exits, runs>>

\* line 81: the literal "..\n..\src\n..\src\utils\n", its backslash sequences
\* \s and \u kept as written
PthPrefix ==
    << <<"..">>, LF, <<"..", "src">>, LF, <<"..", "src", "utils">>, LF >>

PatchPth_create ==
    /\ pc = "patch"
    /\ \/ /\ fs.pth.exists
          /\ fs' = [fs EXCEPT !.pth =
                      File(WriteText(PthPrefix \o ReadText(fs.pth.data)))]
          /\ calls' = Append(calls, "write python310._pth")
       \/ /\ ~fs.pth.exists
          /\ fs' = [fs EXCEPT !.pth = File(WriteText(PthPrefix))]
          /\ calls' = Append(calls, "write python310._pth")
    /\ pc' = "getpip"
    /\ UNCHANGED <<system, machine, root, archive, fs0, python_url, result,
                   exits, runs>>

\* lines 72-84: if python310._pth exists, read it, prepend the project paths
\* and write it back
PatchPth ==
    /\ pc = "patch"
    /\ \/ /\ fs.pth.exists
          /\ fs' = [fs EXCEPT !.pth =
                      File(WriteText(PthPrefix \o ReadText(fs.pth.data)))]
          /\ calls' = Append(calls, "write python310._pth")
       \/ /\ ~fs.pth.exists
          /\ UNCHANGED <<fs, calls>>
    /\ pc' = "getpip"
    /\ UNCHANGED <<system, machine, root, archive, fs0, python_url, result,
                   exits, runs>>

\* lines 86-90: fetch get-pip.py unless a copy exists; urlretrieve may raise
FetchGetPip ==
    /\ pc = "getpip"
    /\ \/ /\ fs.getpip
          /\ UNCHANGED <<fs, calls>>
          /\ pc' = "bootstrap"
       \/ /\ ~fs.getpip
          /\ fs' = [fs EXCEPT !.getpip = TRUE]
          /\ calls' = Append(calls, "urlretrieve get-pip.py")
          /\ pc' = "bootstrap"
       \/ /\ ~fs.getpip
          /\ fs' = fs
          /\ calls' = Append(calls, "urlretrieve get-pip.py")
          /\ pc' = "crashed"
    /\ UNCHANGED <<system, machine, root, archive, fs0, python_url, result,
                   exits, runs>>

BootstrapPip_checked ==
    /\ pc = "bootstrap"
    /\ \/ /\ fs.exe
          /\ \E code \in ExitCodes :
               /\ exits' = Append(exits, code)
               /\ pc' = IF code = 0 THEN "install" ELSE "done"
               /\ result' = IF code = 0 THEN result ELSE FALSE
          /\ calls' = Append(calls, "subprocess get-pip.py")
       \/ /\ ~fs.exe
          /\ pc' = "crashed"
          /\ UNCHANGED <<calls, exits, result>>
    /\ UNCHANGED <<system, machine, root, archive, fs, fs0, python_url, runs>>

\* lines 92-95: subprocess.run([python_exe, pip_script, ...]); the returned
\* CompletedProcess is dropped; a missing python.exe raises FileNotFoundError
BootstrapPip ==
    /\ pc = "bootstrap"
    /\ \/ /\ fs.exe
          /\ \E code \in ExitCodes : exits' = Append(exits, code)
          /\ calls' = Append(calls, "subprocess get-pip.py")
          /\ pc' = "install"
       \/ /\ ~fs.exe
          /\ pc' = "crashed"
          /\ UNCHANGED <<calls, exits>>
    /\ UNCHANGED <<system, machine, root, archive, fs, fs0, python_url,
                   result, runs>>

InstallDeps_nocheck ==
    /\ pc = "install"
    /\ \E code \in ExitCodes : exits' = Append(exits, code)
    /\ calls' = Append(calls, "subprocess pip install -r")
    /\ pc' = "scripts"
    /\ UNCHANGED <<system, machine, root, archive, fs, fs0, python_url,
                   result, runs>>

\* lines 97-104: pip install -r requirements.txt if the file exists, else
\* return False
InstallDeps ==
    /\ pc = "install"
    /\ \/ /\ fs.req
          /\ \E code \in ExitCodes : exits' = Append(exits, code)
          /\ calls' = Append(calls, "subprocess pip install -r")
          /\ pc' = "scripts"
          /\ UNCHANGED result
       \/ /\ ~fs.req
          /\ result' = FALSE
          /\ pc' = "done"
          /\ UNCHANGED <<calls, exits>>
    /\ UNCHANGED <<system, machine, root, archive, fs, fs0, python_url, runs>>

\* lines 122-129: the f-string written to activate_portable.bat
ActivateTemplate(r) ==
    << <<"@echo off">>, LF,
       <<"echo Activating portable Python environment...">>, LF,
       <<"set PYTHONPATH=">>, r, <<";">>, r \o <<"src">>, <<";">>,
           r \o <<"src", "utils">>, <<";%PYTHONPATH%">>, LF,
       <<"set PATH=">>, PythonDir(r), <<";">>, PythonDir(r) \o <<"Scripts">>,
           <<";%PATH%">>, LF,
       <<"echo Portable Python environment activated.">>, LF,
       <<"echo To run the application, use: python src\\main.py">>, LF,
       <<"cmd /k">>, LF >>

\* lines 134-140: the plain string written to deactivate_portable.bat
DeactivateTemplate ==
    << <<"@echo off">>, LF,
       <<"echo Deactivating portable Python environment...">>, LF,
       <<"set PYTHONPATH=">>, LF,
       <<"set PATH=%ORIGINAL_PATH%">>, LF,
       <<"echo Portable Python environment deactivated.">>, LF,
       <<"cmd /k">>, LF >>

CreateActivationScripts_append ==
    /\ pc = "scripts"
    /\ fs' = [fs EXCEPT
                !.activate = File(fs.activate.data
                                  \o WriteText(ActivateTemplate(root))),
                !.deactivate = File(fs.deactivate.data
                                    \o WriteText(DeactivateTemplate))]
    /\ calls' = calls \o <<"write activate_portable.bat",
                           "write deactivate_portable.bat">>
    /\ pc' = "return"
    /\ UNCHANGED <<system, machine, root, archive, fs0, python_url, result,
                   exits, runs>>

CreateActivationScripts_unsubstituted ==
    /\ pc = "scripts"
    /\ fs' = [fs EXCEPT
                !.activate = File(WriteText(
                    ActivateTemplate(<<"{project_root}">>))),
                !.deactivate = File(WriteText(DeactivateTemplate))]
    /\ calls' = calls \o <<"write activate_portable.bat",
                           "write deactivate_portable.bat">>
    /\ pc' = "return"
    /\ UNCHANGED <<system, machine, root, archive, fs0, python_url, result,
                   exits, runs>>

\* lines 106-107, 113-144: create_activation_scripts() opens both files with
\* mode 'w' and writes the templates
CreateActivationScripts ==
    /\ pc = "scripts"
    /\ fs' = [fs EXCEPT
                !.activate = File(WriteText(ActivateTemplate(root))),
                !.deactivate = File(WriteText(DeactivateTemplate))]
    /\ calls' = calls \o <<"write activate_portable.bat",
                           "write deactivate_portable.bat">>
    /\ pc' = "return"
    /\ UNCHANGED <<system, machine, root, archive, fs0, python_url, result,
                   exits, runs>>

\* lines 109-111: return True
ReturnTrue ==
    /\ pc = "return"
    /\ result' = TRUE
    /\ pc' = "done"
    /\ UNCHANGED <<system, machine, root, archive, fs, fs0, python_url,
                   calls, exits, runs>>

\* one statement of a run in progress
Step ==
    \/ MakeDirs
    \/ ResolveUrl
    \/ Unsupported
    \/ Download
    \/ Extract
    \/ Unlink
    \/ PatchPth
    \/ FetchGetPip
    \/ BootstrapPip
    \/ InstallDeps
    \/ CreateActivationScripts
    \/ ReturnTrue

Next == Start \/ Step

Spec == Init /\ [][Next]_vars

\* a started run executes its next statement
FairSpec == Spec /\ WF_vars(Step)

\* ------------------------------------------------------------ helpers
Range(q) == {q[i] : i \in 1..Len(q)}
StartsWith(q, prefix) ==
    Len(q) >= Len(prefix) /\ SubSeq(q, 1, Len(prefix)) = prefix
Count(q, tok) == Cardinality({i \in 1..Len(q) : q[i] = tok})

\* raw platform names whose lower-case form the code compares against
WindowsNames == {"Windows", "windows"}
Amd64Names == {"AMD64", "x86_64"}

WellFormed(u) ==
    /\ u.kind = "str"
    /\ u.scheme \in {"http", "https"}
    /\ u.host # ""
    /\ u.path # ""

\* the path of `to` relative to directory `from`, as os.path.relpath gives it
RECURSIVE CommonLen(_, _)
CommonLen(a, b) ==
    IF a = <<>> \/ b = <<>> \/ Head(a) # Head(b) THEN 0
    ELSE 1 + CommonLen(Tail(a), Tail(b))
RelPath(from, to) ==
    LET c == CommonLen(from, to)
    IN  [i \in 1..(Len(from) - c) |-> ".."] \o SubSeq(to, c + 1, Len(to))

Patched == "write python310._pth" \in Range(calls)
Generated == pc = "return" \/ (pc = "done" /\ result = TRUE)
Subprocesses == {"subprocess get-pip.py", "subprocess pip install -r"}

\* ------------------------------------------------------------- claims

\* C1: once get_python_download_url has returned, the URL is the amd64
\* archive when the system is windows and the machine amd64 or x86_64 (in
\* any letter case), the win32 archive when the system is windows and the
\* machine anything else, None for every other system; every URL returned
\* is well formed.
C1_DownloadUrl ==
    pc \notin {"idle", "mkdir", "resolve"} =>
        /\ (system \in WindowsNames /\ machine \in Amd64Names
              => python_url = Amd64Url)
        /\ (system \in WindowsNames /\ machine \notin Amd64Names
              => python_url = Win32Url)
        /\ (system \notin WindowsNames => python_url = None)
        /\ (python_url # None => WellFormed(python_url))

C1_Witness ==
    /\ pc = "branch"
    /\ system = "Windows"
    /\ machine = "AMD64"
    /\ python_url = Amd64Url

\* C2: when the patch step runs on an existing python310._pth holding T, the
\* file afterwards holds three lines naming the project root, its src and
\* its src/utils relative to the runtime directory, followed by T unchanged.
C2_PatchPrependsProjectPaths ==
    [][(pc = "patch" /\ fs.pth.exists) =>
         \E nl \in {<<LF>>, <<CR, LF>>} :
           fs'.pth.data =
               <<RelPath(PythonDir(root), root)>> \o nl
               \o <<RelPath(PythonDir(root), root \o <<"src">>)>> \o nl
               \o <<RelPath(PythonDir(root), root \o <<"src", "utils">>)>> \o nl
               \o fs.pth.data]_vars

\* C3 as stated: a run without requirements.txt returns False and starts no
\* subprocess at all.
C3_NoSubprocessWithoutRequirements ==
    (pc = "done" /\ ~fs.req) =>
        /\ result = FALSE
        /\ Range(calls) \cap Subprocesses = {}

\* C3 amended: without requirements.txt no run ever invokes pip install -r,
\* and a run that returns returns False.
C3_NoPipInstallWithoutRequirements ==
    ~fs.req =>
        /\ "subprocess pip install -r" \notin Range(calls)
        /\ (pc = "done" => result = FALSE)

C3_Witness ==
    /\ pc = "done"
    /\ ~fs.req
    /\ result = FALSE
    /\ "subprocess get-pip.py" \in Range(calls)

\* C4: on a platform without a download URL the run goes from the URL test
\* straight to returning False: no fetch, extraction, manifest rewrite,
\* subprocess or script write happens and every file is as it was before.
C4_UnsupportedAborts ==
    (python_url = None /\ pc \notin {"idle", "mkdir", "resolve", "branch"}) =>
        /\ pc = "done"
        /\ result = FALSE
        /\ calls = <<"mkdir">>
        /\ [fs EXCEPT !.python_dir = fs0.python_dir] = fs0

C4_Witness ==
    /\ pc = "done"
    /\ system = "Linux"
    /\ python_url = None
    /\ result = FALSE

\* C5: a patch step that finds no python310._pth changes nothing in the
\* filesystem, raises nothing, and hands over to the get-pip step.
C5_AbsentManifestIsSkipped ==
    [][(pc = "patch" /\ ~fs.pth.exists) =>
         (fs' = fs /\ pc' = "getpip")]_vars

C5_Witness ==
    /\ pc = "getpip"
    /\ ~fs.pth.exists
    /\ fs.runtime

\* C6 as stated: after create_activation_scripts both scripts contain the
\* absolute path of the runtime directory.
C6_BothScriptsContainRuntimeDir ==
    Generated =>
        /\ PythonDir(root) \in Range(fs.activate.data)
        /\ PythonDir(root) \in Range(fs.deactivate.data)

\* C6 amended: after create_activation_scripts the activation script
\* contains the absolute path of the runtime directory; the deactivation
\* script holds text chunks and line breaks only, no path.
C6_ActivateContainsRuntimeDir ==
    Generated =>
        /\ PythonDir(root) \in Range(fs.activate.data)
        /\ fs.deactivate.exists
        /\ \A i \in 1..Len(fs.deactivate.data) :
             Len(fs.deactivate.data[i]) = 1

C6_Witness ==
    /\ pc = "return"
    /\ root = <<"D:", "work", "app">>
    /\ <<"D:", "work", "app", "portable_python", "python">>
         \in Range(fs.activate.data)

\* C7 as stated: after each run both scripts hold the fresh template alone.
C7_ScriptsFreshAfterEachRun ==
    pc = "done" =>
        /\ fs.activate = File(WriteText(ActivateTemplate(root)))
        /\ fs.deactivate = File(WriteText(DeactivateTemplate))

\* C7 amended: after each run that reaches script generation both scripts
\* hold the fresh template alone, whatever they held before; a run that
\* returns False leaves both as they were.
C7_ScriptsFreshAfterGeneration ==
    /\ Generated =>
         /\ fs.activate = File(WriteText(ActivateTemplate(root)))
         /\ fs.deactivate = File(WriteText(DeactivateTemplate))
    /\ (pc = "done" /\ result = FALSE) =>
         /\ fs.activate = fs0.activate
         /\ fs.deactivate = fs0.deactivate

C7_Witness ==
    /\ pc = "done"
    /\ result = TRUE
    /\ runs = 2
    /\ fs0.activate.exists
    /\ fs0.activate.data # <<>>

\* C8: the value returned depends only on the platform and on the presence
\* of requirements.txt, and once the bootstrap subprocess has returned with
\* requirements.txt present the installation and the script generation
\* follow, whatever the two exit statuses are.
C8_ExitStatusIgnored ==
    pc = "done" =>
        /\ result = (system \in WindowsNames /\ fs.req)
        /\ (Len(exits) >= 1 /\ fs.req) =>
             /\ Len(exits) = 2
             /\ "subprocess pip install -r" \in Range(calls)
             /\ "write activate_portable.bat" \in Range(calls)

C8_Witness ==
    /\ pc = "done"
    /\ exits = <<1, 1>>
    /\ result = TRUE

====
